---- MODULE Spec2Model ----
(***************************************************************************)
(* Model of assets/js/main.js: the Social Security benefit estimator.      *)
(*                                                                         *)
(* The page is an event-driven state machine: module-scope variables       *)
(* (selectedDatasetMap, selectedDatasetMaxAge, currentDatasetName), the    *)
(* values of the input elements, the rendered output (schedule rows,       *)
(* dataset info text, benefit displays), the dataset loads in flight and   *)
(* the listeners of the event being dispatched.                            *)
(*                                                                         *)
(* JavaScript numbers are modelled as exact rationals <<n, d>> in lowest   *)
(* terms with d > 0; NaN is <<0, 0>> and propagates through arithmetic as  *)
(* it does in JavaScript.  Floating-point rounding is not modelled.        *)
(***************************************************************************)
EXTENDS Integers, Sequences, FiniteSets, TLC

VARIABLES
    started,              \* the page script (lines 2-435) has run
    birthDate,            \* birthDate.value: <<y, m, d>>, or <<0, 0, 0>> when unparseable
    benefitAmt,           \* Number(benefitAmt.value)
    globalRate,           \* Number(globalRate.value)
    marginalTax,          \* Number(marginalTax.value)
    retirementAgeEl,      \* Number(retirementAgeEl.value)
    datasetSelect,        \* datasetSelect.value
    selectedDataset,      \* line 60: parsed rows of the last processed dataset (<<>> for null)
    selectedDatasetMap,   \* line 61: [isNull, map], map a function age -> NumSurvivors
    selectedDatasetMaxAge,\* line 62: [isNull, age]
    currentDatasetName,   \* line 63 ("" for null)
    datasetInfo,          \* datasetInfo.textContent: [kind, name, age]
    rows,                 \* the <tr> of scheduleTbody, in order
    adjustedBenefitDisplay,
    netBenefitDisplay,
    inflight,             \* urls of the dataset loads started and not completed
    calcExit,             \* where calculateSchedule left, if the last callback ran it
    nullLookup,           \* calculateSchedule reached line 278 with selectedDatasetMap null
    loadFailed,           \* a load failed and no load has succeeded since
    ys,                   \* one call of computeYearEndWithTax, month by month
    adj                   \* one call of computeAdjustedBenefit

vars == <<started, birthDate, benefitAmt, globalRate, marginalTax, retirementAgeEl,
          datasetSelect, selectedDataset, selectedDatasetMap, selectedDatasetMaxAge,
          currentDatasetName, datasetInfo, rows, adjustedBenefitDisplay,
          netBenefitDisplay, inflight, calcExit, nullLookup, loadFailed, ys, adj>>

---------------------------------------------------------------------------
(* JavaScript number arithmetic *)

NaN == <<0, 0>>

Abs(n) == IF n < 0 THEN -n ELSE n

RECURSIVE GCD(_, _)
GCD(a, b) == IF b = 0 THEN a ELSE GCD(b, a % b)

\* n/d divided through by g, with a positive denominator
Reduce(n, d, g) == IF d < 0 THEN <<-(n \div g), -(d \div g)>> ELSE <<n \div g, d \div g>>

\* n/d in lowest terms with a positive denominator (d # 0)
Rat(n, d) == Reduce(n, d, GCD(Abs(n), Abs(d)))

Num(n) == <<n, 1>>

IsNaN(x) == x[2] = 0

IsInteger(x) == x[2] = 1

\* x + y over the least common denominator, g the gcd of the denominators
AddOver(x, y, g) == Rat(x[1] * (y[2] \div g) + y[1] * (x[2] \div g), (x[2] \div g) * y[2])

Add(x, y) == IF IsNaN(x) \/ IsNaN(y) THEN NaN ELSE AddOver(x, y, GCD(x[2], y[2]))

Neg(x) == <<-x[1], x[2]>>

Sub(x, y) == Add(x, Neg(y))

\* x * y with the common factors g1 of x[1], y[2] and g2 of y[1], x[2] cancelled
MulOver(x, y, g1, g2) ==
    <<(x[1] \div g1) * (y[1] \div g2), (x[2] \div g2) * (y[2] \div g1)>>

Mul(x, y) ==
    IF IsNaN(x) \/ IsNaN(y) THEN NaN
    ELSE IF x[1] = 0 \/ y[1] = 0 THEN Num(0)
    ELSE MulOver(x, y, GCD(Abs(x[1]), y[2]), GCD(Abs(y[1]), x[2]))

\* x / y; the program never divides by zero (the divisors are 100, 12, 9 and a
\* baseNum guarded by baseNum > 0), so only 0/0 = NaN is given for y = 0
Div(x, y) ==
    IF IsNaN(x) \/ IsNaN(y) \/ y[1] = 0 THEN NaN
    ELSE Mul(x, Rat(y[2], y[1]))

\* comparisons with NaN are false
Lt(x, y) == ~IsNaN(x) /\ ~IsNaN(y) /\ x[1] * y[2] < y[1] * x[2]

Gt(x, y) == Lt(y, x)

Le(x, y) == ~IsNaN(x) /\ ~IsNaN(y) /\ x[1] * y[2] <= y[1] * x[2]

\* Math.min
MathMin(x, y) == IF IsNaN(x) \/ IsNaN(y) THEN NaN ELSE IF Lt(y, x) THEN y ELSE x

\* x || dflt on a number: NaN and 0 are falsy
OrElse(x, dflt) == IF IsNaN(x) \/ x[1] = 0 THEN dflt ELSE x

\* parseInt(s, 10) on the text of a number: the integer part, NaN for no number
ParseInt(x) ==
    IF IsNaN(x) THEN NaN
    ELSE IF x[1] >= 0 THEN Num(x[1] \div x[2]) ELSE Num(-((-x[1]) \div x[2]))

---------------------------------------------------------------------------
(* computeAdjustedBenefit, lines 387-404 *)

FRA == 67

\* line 396
perMonthFirst == Div(Div(Num(5), Num(9)), Num(100))

\* line 397
perMonthAfter == Div(Div(Num(5), Num(12)), Num(100))

\* EarlyReduction with the first 36 months' rate applied to every month
EarlyReductionFlat(monthsEarly) == Mul(monthsEarly, perMonthFirst)

\* lines 398-402: the reduction fraction for monthsEarly months before FRA
EarlyReduction(monthsEarly) ==
    IF Le(monthsEarly, Num(36))
    THEN Mul(monthsEarly, perMonthFirst)
    ELSE Add(Mul(Num(36), perMonthFirst), Mul(Sub(monthsEarly, Num(36)), perMonthAfter))

computeAdjustedBenefit(fullBenefit, retireAge) ==
    IF retireAge = Num(FRA) THEN fullBenefit
    ELSE IF Gt(retireAge, Num(FRA))
    THEN LET yearsDelayed == Sub(retireAge, Num(FRA))
         IN  Mul(fullBenefit, Add(Num(1), Mul(Rat(8, 100), yearsDelayed)))
    ELSE LET monthsEarly == Mul(Sub(Num(FRA), retireAge), Num(12))
         IN  Mul(fullBenefit, Sub(Num(1), EarlyReduction(monthsEarly)))

---------------------------------------------------------------------------
(* computeYearEndWithTax, lines 351-374 *)

\* line 358: the April deduction applies
TaxApplies(month, marginalTaxPct, priorYearInterest) ==
    month = 4 /\ Gt(priorYearInterest, Num(0)) /\ Gt(marginalTaxPct, Num(0))

\* line 359
TaxDue(marginalTaxPct, priorYearInterest) ==
    Mul(priorYearInterest, Div(marginalTaxPct, Num(100)))

\* line 361
ClampAtZero(balance) == IF Lt(balance, Num(0)) THEN Num(0) ELSE balance

\* DeductTax without the clamp of line 361
DeductTaxNoClamp(balance, marginalTaxPct, priorYearInterest) ==
    Sub(balance, TaxDue(marginalTaxPct, priorYearInterest))

\* lines 359-361: deduct the tax due and clamp the balance at zero
DeductTax(balance, marginalTaxPct, priorYearInterest) ==
    ClampAtZero(Sub(balance, TaxDue(marginalTaxPct, priorYearInterest)))

\* lines 365-366: the interest accumulator after this month's interest
AccrueInterest(interestEarnedThisYear, interest) == Add(interestEarnedThisYear, interest)

\* lines 358-362: the balance after the April step of this month
BalanceAfterTax(balance, month, marginalTaxPct, priorYearInterest) ==
    IF TaxApplies(month, marginalTaxPct, priorYearInterest)
    THEN DeductTax(balance, marginalTaxPct, priorYearInterest)
    ELSE balance

\* lines 366-370: the month's interest and payment added
MonthCredit(st, balance, interest, monthlyPayment) ==
    [balance |-> Add(Add(balance, interest), monthlyPayment),
     interestEarnedThisYear |-> AccrueInterest(st.interestEarnedThisYear, interest)]

\* lines 365-370: the month from the balance left by the April step
MonthInterest(st, balance, monthlyPayment, rm) ==
    MonthCredit(st, balance, Mul(balance, rm), monthlyPayment)

\* lines 356-371: one iteration of the month loop on [balance, interestEarnedThisYear]
MonthBody(st, month, monthlyPayment, rm, marginalTaxPct, priorYearInterest) ==
    MonthInterest(st, BalanceAfterTax(st.balance, month, marginalTaxPct, priorYearInterest),
                  monthlyPayment, rm)

\* line 354
MonthlyRate(annualRate) == Div(Div(annualRate, Num(100)), Num(12))

\* lines 356-371: the month loop from month on.  A balance that is NaN before a
\* month stays NaN in every later month and makes the interest of those months
\* NaN, so the remaining months need not be run.
RECURSIVE YearLoop(_, _, _, _, _, _)
YearLoop(st, month, monthlyPayment, rm, marginalTaxPct, priorYearInterest) ==
    IF month > 12 THEN st
    ELSE IF IsNaN(st.balance) THEN [balance |-> NaN, interestEarnedThisYear |-> NaN]
    ELSE YearLoop(MonthBody(st, month, monthlyPayment, rm, marginalTaxPct, priorYearInterest),
                  month + 1, monthlyPayment, rm, marginalTaxPct, priorYearInterest)

\* line 373
YearResult(st) == [endBalance |-> st.balance, interestEarned |-> st.interestEarnedThisYear]

computeYearEndWithTax(startBalance, monthlyPayment, annualRate, marginalTaxPct, priorYearInterest) ==
    YearResult(YearLoop([balance |-> startBalance, interestEarnedThisYear |-> Num(0)], 1,
                        monthlyPayment, MonthlyRate(annualRate), marginalTaxPct,
                        priorYearInterest))

---------------------------------------------------------------------------
(* Dates: getAgeYears, lines 211-221 *)

\* birthDate.value that new Date(value + 'T00:00:00') cannot parse (line 250)
InvalidDate == <<0, 0, 0>>

\* line 30
DefaultBirthDate == <<1970, 1, 1>>

\* new Date() at line 275: the day the page is used
Today == <<2032, 6, 15>>

getAgeYears(birth, asOfDate) ==
    LET age == asOfDate[1] - birth[1]
    IN  IF asOfDate[2] < birth[2] \/ (asOfDate[2] = birth[2] /\ asOfDate[3] < birth[3])
        THEN age - 1
        ELSE age

---------------------------------------------------------------------------
(* Datasets and buildDatasetMap, lines 90-108 *)

\* largest age of the period life table served to the page
MaxTableAge == 64

\* a parsed CSV row, as Number(row.Age) and Number(row.NumSurvivors) read it
Row(age, n) == [Age |-> age, NumSurvivors |-> n]

\* NumSurvivors of the period table: decreasing, but for a noisy count at 63
PeriodSurvivors(a) == IF a = 63 THEN 100 ELSE 100 - 10 * (a - 60)

\* the files the dataset selector offers, by url
Urls == {"data/period.csv", "data/cohort.csv", "data/empty.csv", "data/short.csv"}

Dataset(url) ==
    CASE url = "data/period.csv" ->
           [i \in 1..(MaxTableAge - 59) |-> Row(Num(59 + i), Num(PeriodSurvivors(59 + i)))]
      [] url = "data/cohort.csv" ->
           << Row(Num(62), Num(50)), Row(Rat(125, 2), Num(70)), Row(Num(63), NaN),
              Row(Num(64), Num(-20)), Row(Num(62), Num(40)), Row(NaN, Num(10)) >>
      [] url = "data/empty.csv" ->
           << Row(NaN, Num(5)), Row(Rat(141, 2), Num(3)), Row(Num(66), NaN) >>
      [] url = "data/short.csv" ->
           << Row(Num(42), Num(1000)), Row(Num(50), Num(900)) >>

\* the text of the <option> whose value is url
OptText(url) ==
    CASE url = "data/period.csv" -> "Period life table"
      [] url = "data/cohort.csv" -> "Cohort life table"
      [] url = "data/empty.csv"  -> "Empty table"
      [] url = "data/short.csv"  -> "Short table"
      [] OTHER -> ""

\* lines 82-83: the file name of the url without its .csv
NameFromFile(url) ==
    CASE url = "data/period.csv" -> "period"
      [] url = "data/cohort.csv" -> "cohort"
      [] url = "data/empty.csv"  -> "empty"
      [] url = "data/short.csv"  -> "short"
      [] OTHER -> url

\* lines 77-88; sel is the value of #datasetSelect when the function runs
getDatasetName(url, sel) ==
    LET optText == OptText(sel)
        nameFromFile == NameFromFile(url)
    IN  IF optText # "" THEN optText ELSE IF nameFromFile # "" THEN nameFromFile ELSE url

NullMap == [isNull |-> TRUE, map |-> << >>]

NullAge == [isNull |-> TRUE, age |-> 0]

\* Map.set
MapSet(m, k, v) == [x \in (DOMAIN m) \union {k} |-> IF x = k THEN v ELSE m[x]]

\* Number.isFinite on a modelled number
IsFinite(n) == ~IsNaN(n)

\* line 96: rows whose Age is not an integer are skipped
UsableAge(age) == IsInteger(age)

RECURSIVE BuildLoop(_, _, _)
BuildLoop(dataset, i, acc) ==
    IF i > Len(dataset) THEN acc
    ELSE LET age == dataset[i].Age
             n == dataset[i].NumSurvivors
         IN  IF UsableAge(age) /\ IsFinite(n)
             THEN BuildLoop(dataset, i + 1,
                    [map |-> MapSet(acc.map, age[1], n),
                     maxAge |-> IF acc.maxAge.isNull \/ age[1] > acc.maxAge.age
                                THEN [isNull |-> FALSE, age |-> age[1]]
                                ELSE acc.maxAge])
             ELSE BuildLoop(dataset, i + 1, acc)

buildDatasetMap(dataset) == BuildLoop(dataset, 1, [map |-> << >>, maxAge |-> NullAge])

---------------------------------------------------------------------------
(* calculateSchedule, lines 248-348 *)

\* line 252
startAge == 62

\* datasetInfo.textContent
Info(kind, name, age) == [kind |-> kind, name |-> name, age |-> age]

\* Number(v || 0) in formatCurrency, line 234 (rounding to cents is not modelled)
formatCurrency(v) == OrElse(v, Num(0))

\* lines 295-305
SurvivalProb(age, userAge, map, baseNum) ==
    IF age <= userAge THEN Num(1)
    ELSE IF age \in DOMAIN map /\ Gt(baseNum, Num(0))
         THEN MathMin(Num(1), Div(map[age], baseNum))
         ELSE NaN

\* line 312
MonthlyPaymentThisYear(age, retirementAge, monthlyBenefitNet) ==
    IF Le(retirementAge, Num(age)) THEN monthlyBenefitNet ELSE Num(0)

\* NextExpectedValue with the first row's rule applied to every row
NextExpectedValueNoCarry(age, expectedValue, endBal, yearActivity, survivalProb) ==
    Mul(endBal, survivalProb)

\* lines 331-336
NextExpectedValue(age, expectedValue, endBal, yearActivity, survivalProb) ==
    IF age = startAge THEN Mul(endBal, survivalProb)
    ELSE Add(expectedValue, Mul(yearActivity, survivalProb))

\* LoopContinues stopping one age early
LoopContinuesStrict(age, maxAge) == age < (IF maxAge.isNull THEN 0 ELSE maxAge.age)

\* line 285: the loop runs while age <= selectedDatasetMaxAge (null compares as 0)
LoopContinues(age, maxAge) == age <= (IF maxAge.isNull THEN 0 ELSE maxAge.age)

\* lines 258-260: balance, priorYearInterest and expectedValue before the loop
BeforeFirstRow == [endBal |-> Num(0), interestEarned |-> Num(0), expectedValue |-> Num(0)]

\* lines 315-345: the row of age from the year's result fin; prev holds the
\* loop's balance, priorYearInterest and expectedValue before the iteration
RowOfYear(age, c, prev, survivalProb, monthlyPaymentThisYear, fin) ==
    [year |-> c.birthYear + age, age |-> age, survivalProb |-> survivalProb,
     monthlyPayment |-> monthlyPaymentThisYear,
     interestEarned |-> fin.interestEarned,
     endBal |-> fin.endBalance,
     expectedValue |->
         NextExpectedValue(age, prev.expectedValue, fin.endBalance,
                           Add(Mul(monthlyPaymentThisYear, Num(12)), fin.interestEarned),
                           survivalProb)]

\* lines 314-345
RowOfPayment(age, c, prev, survivalProb, monthlyPaymentThisYear) ==
    RowOfYear(age, c, prev, survivalProb, monthlyPaymentThisYear,
              computeYearEndWithTax(prev.endBal, monthlyPaymentThisYear, c.annualRate,
                                    c.taxPct, prev.interestEarned))

\* lines 286-345: one iteration of the row loop
ScheduleRow(age, c, prev) ==
    RowOfPayment(age, c, prev, SurvivalProb(age, c.userAge, c.map, c.baseNum),
                 MonthlyPaymentThisYear(age, c.retirementAge, c.monthlyBenefitNet))

\* lines 285-346: the rows appended from age on.  The loop's balance,
\* priorYearInterest and expectedValue (lines 344-345, 332-335) are those of the
\* row appended last.
RECURSIVE ScheduleLoop(_, _, _)
ScheduleLoop(age, c, acc) ==
    IF ~LoopContinues(age, c.maxAge) THEN acc
    ELSE ScheduleLoop(age + 1, c,
             Append(acc, ScheduleRow(age, c, IF age = startAge THEN BeforeFirstRow
                                              ELSE acc[Len(acc)])))

\* BirthIsValid without the check of line 250
BirthIsValidAlways(birth) == TRUE

\* line 250: the birth date parsed
BirthIsValid(birth) == birth # InvalidDate

\* ClearTable leaving the rendered rows in place
ClearTableKeep(tbody) == tbody

\* line 255: scheduleTbody.innerHTML = ''
ClearTable(tbody) == << >>

\* in: the input elements' values; dmap, dmax, dname: the module variables;
\* out: the output elements before the call.  The result is the output after the
\* call, the place the call left the function and whether it threw at line 278.
\* lines 269 and 243
MonthlyBenefitNet(adjustedMonthlyBenefit, taxPct) ==
    Mul(adjustedMonthlyBenefit, Sub(Num(1), Div(taxPct, Num(100))))

\* lines 275-347: the lookup of the user's age and the row loop, after the
\* table was cleared (line 255) and the displays written (lines 272-273)
ScheduleFor(in, dmap, dmax, dname, cleared, userAge, monthlyBenefitNet) ==
    IF dmap.isNull
    THEN [cleared EXCEPT !.exit = "throw278", !.threw = TRUE]
    ELSE IF userAge \notin DOMAIN dmap.map
    THEN [cleared EXCEPT !.datasetInfo = Info("nodata", "", userAge), !.exit = "return281"]
    ELSE [cleared EXCEPT
            !.rows = ScheduleLoop(startAge,
                         [userAge |-> userAge, map |-> dmap.map,
                          baseNum |-> dmap.map[userAge], maxAge |-> dmax,
                          retirementAge |-> OrElse(in.retirementAgeEl, Num(FRA)),
                          monthlyBenefitNet |-> monthlyBenefitNet,
                          annualRate |-> OrElse(in.globalRate, Num(0)),
                          taxPct |-> OrElse(in.marginalTax, Num(0)),
                          birthYear |-> in.birthDate[1]],
                         cleared.rows),
            !.datasetInfo = Info("name", IF dname = "" THEN "Life table" ELSE dname, 0),
            !.exit = "return347"]

\* lines 255-347, from the net monthly benefit of line 269
ScheduleWithNet(in, dmap, dmax, dname, out, adjustedMonthlyBenefit, monthlyBenefitNet) ==
    ScheduleFor(in, dmap, dmax, dname,
                [rows |-> ClearTable(out.rows), datasetInfo |-> out.datasetInfo,
                 adjusted |-> formatCurrency(adjustedMonthlyBenefit),
                 net |-> formatCurrency(monthlyBenefitNet),
                 exit |-> "none", threw |-> FALSE],
                getAgeYears(in.birthDate, Today), monthlyBenefitNet)

\* lines 255-347, from the adjusted benefit of line 268
ScheduleWithBenefit(in, dmap, dmax, dname, out, adjustedMonthlyBenefit) ==
    ScheduleWithNet(in, dmap, dmax, dname, out, adjustedMonthlyBenefit,
                    MonthlyBenefitNet(adjustedMonthlyBenefit, OrElse(in.marginalTax, Num(0))))

calculateSchedule(in, dmap, dmax, dname, out) ==
    IF ~BirthIsValid(in.birthDate)
    THEN [rows |-> out.rows, datasetInfo |-> out.datasetInfo, adjusted |-> out.adjusted,
          net |-> out.net, exit |-> "return250", threw |-> FALSE]
    ELSE ScheduleWithBenefit(in, dmap, dmax, dname, out,
             computeAdjustedBenefit(OrElse(in.benefitAmt, Num(0)),
                                    OrElse(in.retirementAgeEl, Num(FRA))))

\* lines 243-245
BenefitDisplays(adjustedMonthlyBenefit, taxPct) ==
    [adjusted |-> formatCurrency(adjustedMonthlyBenefit),
     net |-> formatCurrency(MonthlyBenefitNet(adjustedMonthlyBenefit, taxPct))]

\* lines 238-246
updateBenefitDisplays(in) ==
    BenefitDisplays(computeAdjustedBenefit(OrElse(in.benefitAmt, Num(0)),
                                           OrElse(ParseInt(in.retirementAgeEl), Num(FRA))),
                    OrElse(in.marginalTax, Num(0)))

---------------------------------------------------------------------------
(* The page: state after the document is built, and its callbacks *)

\* values the user gives the inputs
BirthDates == {InvalidDate, DefaultBirthDate, <<1968, 6, 16>>, <<1990, 1, 1>>}

BenefitValues == {Num(1000), Num(10)}

RateValues == {Num(5), Num(0), Num(1200)}

TaxValues == {Num(0), Num(50)}

RetirementAges == {Num(FRA), Num(startAge), Num(MaxTableAge - 1)}

\* dataset loads that may be in flight at once
MaxInflight == 2

\* The arithmetic is exact, so the explored input combinations are those whose
\* balances stay within 32-bit integers: no interest (rate 0), no payment
\* in any row (retirement after the last table age), or a monthly rate of 1 with
\* at most two years of payments on a small benefit.
Computable(benefit, rate, retEl) ==
    LET retirementAge == OrElse(retEl, Num(FRA))
    IN  \/ rate = Num(0)
        \/ Gt(retirementAge, Num(MaxTableAge))
        \/ rate = Num(1200) /\ Le(Num(MaxTableAge - 1), retirementAge) /\ Le(benefit, Num(10))

YsIdle ==
    [startBalance |-> Num(0), monthlyPayment |-> Num(0), annualRate |-> Num(0),
     marginalTaxPct |-> Num(0), priorYearInterest |-> Num(0), month |-> 0,
     balance |-> Num(0), interestEarnedThisYear |-> Num(0), taxPaid |-> Num(0)]

AdjIdle == [fullBenefit |-> Num(0), retireAge |-> Num(FRA), done |-> FALSE, result |-> Num(0)]

\* the document before the script runs: inputs as the markup leaves them
PageInit ==
    /\ started = FALSE
    /\ birthDate = InvalidDate
    /\ benefitAmt = NaN
    /\ globalRate = NaN
    /\ marginalTax = Num(0)
    /\ retirementAgeEl = Num(FRA)
    /\ datasetSelect \in Urls \union {""}
    /\ selectedDataset = << >>
    /\ selectedDatasetMap = NullMap
    /\ selectedDatasetMaxAge = NullAge
    /\ currentDatasetName = ""
    /\ datasetInfo = Info("initial", "", 0)
    /\ rows = << >>
    /\ adjustedBenefitDisplay = Num(0)
    /\ netBenefitDisplay = Num(0)
    /\ inflight = {}
    /\ calcExit = "none"
    /\ nullLookup = FALSE
    /\ loadFailed = FALSE

Init == PageInit /\ ys = YsIdle /\ adj = AdjIdle

Inputs(birth, benefit, rate, tax, retEl) ==
    [birthDate |-> birth, benefitAmt |-> benefit, globalRate |-> rate,
     marginalTax |-> tax, retirementAgeEl |-> retEl]

Outputs(info) ==
    [rows |-> rows, datasetInfo |-> info, adjusted |-> adjustedBenefitDisplay,
     net |-> netBenefitDisplay]

\* the outputs and the bookkeeping after a calculateSchedule call that returned r
RenderCalc(r) ==
    /\ rows' = r.rows
    /\ datasetInfo' = r.datasetInfo
    /\ adjustedBenefitDisplay' = r.adjusted
    /\ netBenefitDisplay' = r.net
    /\ calcExit' = r.exit
    /\ nullLookup' = (nullLookup \/ r.threw)

\* lines 5-433: the script runs once: defaults (33-47), the load of the initial
\* selection (72-74), the listeners, and the initial build (433)
PageStart ==
    /\ ~started
    /\ started' = TRUE
    /\ benefitAmt' = Num(1000)
    /\ globalRate' = Num(5)
    /\ birthDate' = DefaultBirthDate
    /\ inflight' = IF datasetSelect # "" THEN inflight \union {datasetSelect} ELSE inflight
    /\ RenderCalc(calculateSchedule(
           Inputs(DefaultBirthDate, Num(1000), Num(5), marginalTax, retirementAgeEl),
           selectedDatasetMap, selectedDatasetMaxAge, currentDatasetName,
           Outputs(IF datasetSelect # "" THEN Info("loading", "", 0) ELSE datasetInfo)))
    /\ UNCHANGED <<marginalTax, retirementAgeEl, datasetSelect, selectedDataset,
                   selectedDatasetMap, selectedDatasetMaxAge, currentDatasetName,
                   loadFailed, ys, adj>>

\* lines 244-245: the outputs r with the displays u written
WithDisplays(r, u) == [r EXCEPT !.adjusted = u.adjusted, !.net = u.net]

\* One event on an input element: its listeners run one after the other, in the
\* order lines 413-430 added them; a listener that throws does not stop the next.
\* in: the input values the listeners read.
RECURSIVE RunListeners(_, _, _)
RunListeners(listeners, in, r) ==
    IF listeners = << >> THEN r
    ELSE IF Head(listeners) = "calculateSchedule"
    THEN RunListeners(Tail(listeners), in,
             calculateSchedule(in, selectedDatasetMap, selectedDatasetMaxAge,
                               currentDatasetName,
                               [rows |-> r.rows, datasetInfo |-> r.datasetInfo,
                                adjusted |-> r.adjusted, net |-> r.net]))
    ELSE RunListeners(Tail(listeners), in, WithDisplays(r, updateBenefitDisplays(in)))

Dispatch(listeners, in) ==
    /\ started
    /\ RenderCalc(RunListeners(listeners, in,
           [rows |-> rows, datasetInfo |-> datasetInfo, adjusted |-> adjustedBenefitDisplay,
            net |-> netBenefitDisplay, exit |-> "none", threw |-> FALSE]))
    /\ UNCHANGED <<started, datasetSelect, selectedDataset, selectedDatasetMap,
                   selectedDatasetMaxAge, currentDatasetName, inflight, loadFailed, ys, adj>>

\* lines 413-414: 'input' or 'change' on the birth date (onBirthOrEndChange)
BirthDateEvent ==
    /\ \E v \in BirthDates :
         /\ birthDate' = v
         /\ Dispatch(<<"calculateSchedule">>,
                     Inputs(v, benefitAmt, globalRate, marginalTax, retirementAgeEl))
    /\ UNCHANGED <<benefitAmt, globalRate, marginalTax, retirementAgeEl>>

\* lines 419 and 425: 'input' on the benefit amount
BenefitInput ==
    /\ \E v \in BenefitValues :
         /\ Computable(v, globalRate, retirementAgeEl)
         /\ benefitAmt' = v
         /\ Dispatch(<<"calculateSchedule", "updateBenefitDisplays">>,
                     Inputs(birthDate, v, globalRate, marginalTax, retirementAgeEl))
    /\ UNCHANGED <<birthDate, globalRate, marginalTax, retirementAgeEl>>

\* lines 421-422: 'input' or 'change' on the rate
RateEvent ==
    /\ \E v \in RateValues :
         /\ Computable(benefitAmt, v, retirementAgeEl)
         /\ globalRate' = v
         /\ Dispatch(<<"calculateSchedule">>,
                     Inputs(birthDate, benefitAmt, v, marginalTax, retirementAgeEl))
    /\ UNCHANGED <<birthDate, benefitAmt, marginalTax, retirementAgeEl>>

\* lines 423 and 426: 'input' on the marginal tax
TaxInput ==
    /\ \E v \in TaxValues :
         /\ marginalTax' = v
         /\ Dispatch(<<"calculateSchedule", "updateBenefitDisplays">>,
                     Inputs(birthDate, benefitAmt, globalRate, v, retirementAgeEl))
    /\ UNCHANGED <<birthDate, benefitAmt, globalRate, retirementAgeEl>>

\* lines 427-430: 'input' or 'change' on the retirement age
RetirementAgeEvent ==
    /\ \E v \in RetirementAges :
         /\ Computable(benefitAmt, globalRate, v)
         /\ retirementAgeEl' = v
         /\ Dispatch(<<"updateBenefitDisplays", "calculateSchedule">>,
                     Inputs(birthDate, benefitAmt, globalRate, marginalTax, v))
    /\ UNCHANGED <<birthDate, benefitAmt, globalRate, marginalTax>>

\* lines 420 and 424: 'change' on the benefit amount or the marginal tax, whose
\* value the 'input' event before it has set
CommitChange ==
    /\ Dispatch(<<"calculateSchedule">>,
                Inputs(birthDate, benefitAmt, globalRate, marginalTax, retirementAgeEl))
    /\ UNCHANGED <<birthDate, benefitAmt, globalRate, marginalTax, retirementAgeEl>>

\* lines 70 and 151-171: the user picks another dataset and loadSelectedDataset
\* starts its load
SelectDataset ==
    /\ started
    /\ Cardinality(inflight) < MaxInflight
    /\ \E url \in Urls \ ({datasetSelect} \union inflight) :
         /\ datasetSelect' = url
         /\ inflight' = inflight \union {url}
    /\ datasetInfo' = Info("loading", "", 0)
    /\ calcExit' = "none"
    /\ UNCHANGED <<started, birthDate, benefitAmt, globalRate, marginalTax, retirementAgeEl,
                   selectedDataset, selectedDatasetMap, selectedDatasetMaxAge,
                   currentDatasetName, rows, adjustedBenefitDisplay, netBenefitDisplay,
                   nullLookup, loadFailed, ys, adj>>

\* lines 135-149, called on the completion of a load (line 164)
\* lines 136-148, with the result of buildDatasetMap and of getDatasetName
InstallDataset(dataset, built, name) ==
    /\ selectedDataset' = dataset
    /\ selectedDatasetMap' = [isNull |-> FALSE, map |-> built.map]
    /\ selectedDatasetMaxAge' = built.maxAge
    /\ currentDatasetName' = name
    /\ RenderCalc(calculateSchedule(
           Inputs(birthDate, benefitAmt, globalRate, marginalTax, retirementAgeEl),
           [isNull |-> FALSE, map |-> built.map], built.maxAge, name,
           Outputs(Info("name", name, 0))))

processDataset(dataset, url) ==
    InstallDataset(dataset, buildDatasetMap(dataset), getDatasetName(url, datasetSelect))

\* a load completes with the parsed rows
LoadSuccess ==
    /\ started
    /\ \E url \in inflight :
         /\ inflight' = inflight \ {url}
         /\ processDataset(Dataset(url), url)
    /\ loadFailed' = FALSE
    /\ UNCHANGED <<started, birthDate, benefitAmt, globalRate, marginalTax, retirementAgeEl,
                   datasetSelect, ys, adj>>

\* lines 165-168: a load fails
LoadError ==
    /\ started
    /\ \E url \in inflight :
         /\ inflight' = inflight \ {url}
         /\ datasetInfo' = Info("error", url, 0)
    /\ loadFailed' = TRUE
    /\ calcExit' = "none"
    /\ UNCHANGED <<started, birthDate, benefitAmt, globalRate, marginalTax, retirementAgeEl,
                   datasetSelect, selectedDataset, selectedDatasetMap, selectedDatasetMaxAge,
                   currentDatasetName, rows, adjustedBenefitDisplay, netBenefitDisplay,
                   nullLookup, ys, adj>>

\* every callback of the page
Next ==
    \/ PageStart
    \/ BirthDateEvent
    \/ BenefitInput
    \/ RateEvent
    \/ TaxInput
    \/ RetirementAgeEvent
    \/ CommitChange
    \/ SelectDataset
    \/ LoadSuccess
    \/ LoadError

Spec == Init /\ [][Next]_vars

\* The page with its dataset loads: selections, completions and failures in any
\* order, and birth date edits, with the financial inputs left at their defaults
NextLoads ==
    \/ PageStart
    \/ BirthDateEvent
    \/ CommitChange
    \/ SelectDataset
    \/ LoadSuccess
    \/ LoadError

SpecLoads == Init /\ [][NextLoads]_vars

\* The page with every input edited in any order, and the load of the initial
\* selection
NextInputs ==
    \/ PageStart
    \/ BirthDateEvent
    \/ BenefitInput
    \/ RateEvent
    \/ TaxInput
    \/ RetirementAgeEvent
    \/ CommitChange
    \/ LoadSuccess

SpecInputs == Init /\ [][NextInputs]_vars

---------------------------------------------------------------------------
(* One call of computeYearEndWithTax, a month of the loop per step *)

YearStartBalances == {Num(0), Num(100), Num(1000)}

YearPayments == {Num(0), Num(70)}

YearRates == {Num(0), Num(600), Num(1200)}

YearTaxPcts == {Num(0), Num(25), Num(100), Num(250)}

YearPriorInterests == {Num(-50), Num(0), Num(40), Num(5000), Num(1000000)}

InitYear ==
    /\ PageInit
    /\ datasetSelect = ""
    /\ adj = AdjIdle
    /\ \E b \in YearStartBalances, p \in YearPayments, r \in YearRates,
          t \in YearTaxPcts, i \in YearPriorInterests :
         ys = [startBalance |-> b, monthlyPayment |-> p, annualRate |-> r,
               marginalTaxPct |-> t, priorYearInterest |-> i, month |-> 1,
               balance |-> b, interestEarnedThisYear |-> Num(0), taxPaid |-> Num(0)]

\* lines 356-371: the body of the loop for ys.month; taxPaid records what line
\* 360-361 took from the balance
YearMonth ==
    /\ ys.month \in 1..12
    /\ LET st == MonthBody([balance |-> ys.balance,
                            interestEarnedThisYear |-> ys.interestEarnedThisYear],
                           ys.month, ys.monthlyPayment, MonthlyRate(ys.annualRate),
                           ys.marginalTaxPct, ys.priorYearInterest)
           taken == Sub(ys.balance, BalanceAfterTax(ys.balance, ys.month, ys.marginalTaxPct,
                                                    ys.priorYearInterest))
       IN  ys' = [ys EXCEPT !.month = ys.month + 1,
                            !.balance = st.balance,
                            !.interestEarnedThisYear = st.interestEarnedThisYear,
                            !.taxPaid = Add(ys.taxPaid, taken)]
    /\ UNCHANGED <<started, birthDate, benefitAmt, globalRate, marginalTax, retirementAgeEl,
                   datasetSelect, selectedDataset, selectedDatasetMap, selectedDatasetMaxAge,
                   currentDatasetName, datasetInfo, rows, adjustedBenefitDisplay,
                   netBenefitDisplay, inflight, calcExit, nullLookup, loadFailed, adj>>

SpecYear == InitYear /\ [][YearMonth]_vars

---------------------------------------------------------------------------
(* One call of computeAdjustedBenefit *)

MinRetireAge == 55

MaxRetireAge == 75

AdjustBenefits == {Num(0), Num(1), Num(1000), Rat(123456, 100), Num(-500)}

InitAdjust ==
    /\ PageInit
    /\ datasetSelect = ""
    /\ ys = YsIdle
    /\ \E b \in AdjustBenefits, a \in MinRetireAge..MaxRetireAge :
         adj = [fullBenefit |-> b, retireAge |-> Num(a), done |-> FALSE, result |-> Num(0)]

CallAdjust ==
    /\ ~adj.done
    /\ adj' = [adj EXCEPT !.done = TRUE,
                          !.result = computeAdjustedBenefit(adj.fullBenefit, adj.retireAge)]
    /\ UNCHANGED <<started, birthDate, benefitAmt, globalRate, marginalTax, retirementAgeEl,
                   datasetSelect, selectedDataset, selectedDatasetMap, selectedDatasetMaxAge,
                   currentDatasetName, datasetInfo, rows, adjustedBenefitDisplay,
                   netBenefitDisplay, inflight, calcExit, nullLookup, loadFailed, ys>>

SpecAdjust == InitAdjust /\ [][CallAdjust]_vars

---------------------------------------------------------------------------
(* Properties *)

UserAge == getAgeYears(birthDate, Today)

MaxAge == IF selectedDatasetMaxAge.isNull THEN 0 ELSE selectedDatasetMaxAge.age

\* the net monthly benefit of the current inputs (lines 262-269)
NetMonthlyBenefit ==
    MonthlyBenefitNet(computeAdjustedBenefit(OrElse(benefitAmt, Num(0)),
                                             OrElse(retirementAgeEl, Num(FRA))),
                      OrElse(marginalTax, Num(0)))

\* C1: calculateSchedule never reaches the life-table lookup of line 278 while
\* selectedDatasetMap is still null
C1_LoadBeforeFirstProjection == ~nullLookup

CalculateScheduleOnly == BirthDateEvent \/ RateEvent \/ CommitChange

\* C3: a projection run with an unparseable birth date returns at line 250 and
\* leaves the rows, the dataset info and both benefit displays as they were,
\* raising nothing
C3_InvalidBirthDateChangesNothing ==
    [][(CalculateScheduleOnly /\ birthDate' = InvalidDate)
       => (/\ rows' = rows
           /\ datasetInfo' = datasetInfo
           /\ adjustedBenefitDisplay' = adjustedBenefitDisplay
           /\ netBenefitDisplay' = netBenefitDisplay
           /\ nullLookup' = nullLookup
           /\ calcExit' = "return250")]_vars

\* a run with an invalid birth date over the rows an earlier run rendered
C3_Witness ==
    /\ birthDate = InvalidDate
    /\ calcExit = "return250"
    /\ rows # << >>
    /\ ~selectedDatasetMap.isNull

RowsAreAgesFromStart == \A i \in 1..Len(rows) : rows[i].age = startAge + i - 1

\* C4 as stated: after a successful projection the table holds one row per age
\* from 62 to maxAge, in increasing order, maxAge - 62 + 1 rows in all
C4_RowsPerAge ==
    calcExit = "return347"
    => (RowsAreAgesFromStart /\ Len(rows) = MaxAge - startAge + 1)

\* C4 amended: one row per age from 62 to maxAge in increasing order; the
\* table is empty when maxAge is below 62
C4_RowsPerAgeAmended ==
    calcExit = "return347"
    => (/\ RowsAreAgesFromStart
        /\ Len(rows) = (IF MaxAge >= startAge THEN MaxAge - startAge + 1 ELSE 0))

\* a projection over a table with an age of the range missing
C4_Witness ==
    /\ calcExit = "return347"
    /\ Len(rows) >= 3
    /\ \E a \in startAge..MaxAge : a \notin DOMAIN selectedDatasetMap.map

\* C5: every row's survival probability is NaN or within [0,1], is 1 for ages
\* up to the user's age, and otherwise min(1, survivors[age]/survivors[userAge])
\* when the age is in the table and survivors[userAge] > 0
C5_SurvivalProbabilityRange ==
    calcExit = "return347"
    => \A i \in 1..Len(rows) :
         LET p == rows[i].survivalProb
             age == rows[i].age
             map == selectedDatasetMap.map
         IN  /\ IsNaN(p) \/ (Le(Num(0), p) /\ Le(p, Num(1)))
             /\ age <= UserAge => p = Num(1)
             /\ (age > UserAge /\ age \in DOMAIN map /\ Gt(map[UserAge], Num(0)))
                => p = MathMin(Num(1), Div(map[age], map[UserAge]))

\* the reduction fraction of the reference rule for retirement before 67
ReferenceReduction(retireAge) ==
    LET m == (FRA - retireAge) * 12
        first == IF m < 36 THEN m ELSE 36
        rest == IF m - 36 > 0 THEN m - 36 ELSE 0
    IN  Add(Mul(Num(first), Rat(5, 900)), Mul(Num(rest), Rat(5, 1200)))

ReferenceAdjust(b, retireAge) ==
    IF retireAge = FRA THEN b
    ELSE IF retireAge > FRA THEN Mul(b, Add(Num(1), Mul(Rat(8, 100), Num(retireAge - FRA))))
    ELSE Mul(b, Sub(Num(1), ReferenceReduction(retireAge)))

\* C6: computeAdjustedBenefit equals the reference rule at every integer age:
\* unchanged at 67, 8% per year above (increasing for a positive benefit), the
\* 5/900 and 5/1200 monthly reductions below; 700 for (1000, 62), 1240 for (1000, 70)
C6_AdjustedBenefitRule ==
    adj.done
    => LET b == adj.fullBenefit
           a == adj.retireAge[1]
       IN  /\ adj.result = ReferenceAdjust(b, a)
           /\ a = FRA => adj.result = b
           /\ (a > FRA /\ Gt(b, Num(0)))
              => Lt(adj.result, computeAdjustedBenefit(b, Num(a + 1)))
           /\ (b = Num(1000) /\ a = 62) => adj.result = Num(700)
           /\ (b = Num(1000) /\ a = 70) => adj.result = Num(1240)

\* the call adjust(1000, 62), more than 36 months early
C6_Witness == adj.done /\ adj.fullBenefit = Num(1000) /\ adj.retireAge = Num(62)

\* C7: in the rows of one projection the payment is the net benefit from the
\* retirement age on and zero before, the first row's expected value is
\* endBalance * survivalProbability, and every later row's is the previous
\* row's plus (payment * 12 + interest earned that year) * survivalProbability
C7_ExpectedValueRecurrence ==
    calcExit = "return347"
    => \A i \in 1..Len(rows) :
         LET r == rows[i]
             pay == IF Le(OrElse(retirementAgeEl, Num(FRA)), Num(r.age))
                    THEN NetMonthlyBenefit ELSE Num(0)
         IN  /\ r.monthlyPayment = pay
             /\ r.expectedValue =
                  (IF i = 1 THEN Mul(r.endBal, r.survivalProb)
                   ELSE Add(rows[i - 1].expectedValue,
                            Mul(Add(Mul(pay, Num(12)), r.interestEarned), r.survivalProb)))

\* a later row with payments, interest and a survival probability strictly
\* between 0 and 1
C7_Witness ==
    /\ calcExit = "return347"
    /\ Len(rows) >= 3
    /\ LET r == rows[Len(rows)]
       IN  /\ Gt(r.monthlyPayment, Num(0))
           /\ Gt(r.interestEarned, Num(0))
           /\ Gt(r.survivalProb, Num(0))
           /\ Lt(r.survivalProb, Num(1))
           /\ Gt(rows[Len(rows) - 1].expectedValue, Num(0))

YearTaxDue == TaxDue(ys.marginalTaxPct, ys.priorYearInterest)

\* C8: during one simulated year with non-negative start balance, payment and
\* rate the balance is never negative after any month; tax is taken only at
\* month 4, only when priorYearInterest > 0 and marginalTaxPct > 0, and never
\* more than once; what is taken leaves the interest accumulator untouched
C8_TaxOnceAndClamped ==
    ys.month >= 1
    => /\ Le(Num(0), ys.balance)
       /\ Le(Num(0), ys.taxPaid) /\ Le(ys.taxPaid, IF Gt(YearTaxDue, Num(0)) THEN YearTaxDue ELSE Num(0))
       /\ ys.taxPaid # Num(0)
          => (/\ ys.month > 4
              /\ Gt(ys.priorYearInterest, Num(0))
              /\ Gt(ys.marginalTaxPct, Num(0)))
       /\ Add(ys.balance, ys.taxPaid)
            = Add(Add(ys.startBalance, ys.interestEarnedThisYear),
                  Mul(Num(ys.month - 1), ys.monthlyPayment))
       /\ ys.month = 13
          => LET fin == computeYearEndWithTax(ys.startBalance, ys.monthlyPayment,
                                              ys.annualRate, ys.marginalTaxPct,
                                              ys.priorYearInterest)
             IN  fin.endBalance = ys.balance /\ fin.interestEarned = ys.interestEarnedThisYear

\* a year whose April deduction exceeded the balance and was clamped
C8_Witness ==
    /\ ys.month = 13
    /\ Gt(ys.taxPaid, Num(0))
    /\ Lt(ys.taxPaid, YearTaxDue)
    /\ Gt(ys.balance, Num(0))

\* C9: between a load failure and the next successful load no recalculation
\* produces projection rows
C9_NoRowsAfterFailedLoad == (loadFailed /\ calcExit = "return347") => rows = << >>

\* The page with loads that all succeed
NextLoadsSucceed ==
    \/ PageStart
    \/ BirthDateEvent
    \/ CommitChange
    \/ SelectDataset
    \/ LoadSuccess

SpecLoadsSucceed == Init /\ [][NextLoadsSucceed]_vars

\* C10: once every load in flight has completed, the table projections use is
\* the table of the dataset selected now, the one the dataset info names
C10_TableOfCurrentSelection ==
    (started /\ inflight = {} /\ datasetSelect \in Urls)
    => (/\ selectedDataset = Dataset(datasetSelect)
        /\ selectedDatasetMap =
             [isNull |-> FALSE, map |-> buildDatasetMap(Dataset(datasetSelect)).map]
        /\ currentDatasetName = OptText(datasetSelect))

===========================================================================
